---- MODULE Spec2Model ----
(***************************************************************************)
(* Device liveness detection of network::monitor (src/src/network/        *)
(* monitor.rs): detect_device, quick_device_check, the probes they run    *)
(* under tokio timeouts, and scan_network.                                 *)
(*                                                                         *)
(* Time is in milliseconds since the call's start_time.  A probe future   *)
(* wrapped in tokio::time::timeout is polled before the deadline is       *)
(* checked, so a probe that completes exactly at the deadline returns its *)
(* value.  A string is kept as the sequence of its '.'-separated parts.   *)
(***************************************************************************)
EXTENDS Integers, Sequences, FiniteSets, TLC

(***************************************************************************)
(* Program constants.                                                      *)
(***************************************************************************)
ARP_TIMEOUT == 1000
TCP_TIMEOUT == 2000
PING_TIMEOUT == 3000
PORT_TIMEOUT == 500
QUICK_ARP_TIMEOUT == 500
QUICK_TCP_TIMEOUT == 1000
QUICK_PORT_TIMEOUT == 200
FIRST_HOST == 1
LAST_HOST == 254
BASE_IP_PARTS == 4

common_ports == <<22, 23, 80, 135, 139, 443, 445, 3389, 5900, 8080>>
quick_ports == <<80, 443, 22, 3389, 445>>

(***************************************************************************)
(* Bounds of the model.                                                    *)
(***************************************************************************)
\* the shortest time in which a subprocess or a peer answers
FORCE_CHECK_MS == 60000
WAKE_ATTEMPTS == 5
WAKE_BASE_MS == 2000
WAKE_STEP_MS == 1000
QUICK_STALE_MS == 10000
FULL_STALE_MS == 30000
FRAME_STEP_MS == 16
FEEDBACK_MS == 3000
WINDOW_MS == 100
QUICK_PERIOD_MS == 10000
FULL_PERIOD_MS == 60000
FastMs == 1
\* how many ports of a host accept connections
MaxOpen == 1
\* how many hosts of a swept network are online
MaxOnline == 2
MaxDevices == 2
MaxOps == 2
\* how far animation_time runs: past the first 60-second window
MaxAnimMs == 60112
MaxClock == 2000
TickMs == 1000

Range(s) == {s[k] : k \in 1..Len(s)}
AllPorts == Range(common_ports) \cup Range(quick_ports)

VARIABLES
    host,         \* the target: what the arp table, the ports and ping show
    stuck,        \* the subprocesses that do not exit within their timeout
    hung,         \* the subprocesses, among those, that never exit
    orphans,      \* the subprocesses of abandoned probes that are still alive
    op,           \* the call in progress: "none", "detect" or "quick"
    pc,           \* where the call is: "idle", "arp", "tcp", "ping", "done"
    now,          \* milliseconds since start_time
    probeStart,   \* when the current probe's timeout was armed
    connStart,    \* when the current connect's timeout was armed
    portIdx,      \* index of the port being connected to (0: not yet parsed)
    inflight,     \* the probe futures being awaited
    started,      \* the probes started, in order
    outcome,      \* per probe: "none", "true", "false", "err", "timeout"
    tried,        \* the ports a connect was started to, in order
    result,       \* what the call returned
    prev,         \* what the call before this one returned, if there was one
    base_ip,      \* scan_network: its argument, as '.'-separated parts
    online,       \* scan_network: the last octets of the hosts that are up
    scanPc,       \* scan_network: "idle", "spawn", "join", "done"
    scanI,        \* scan_network: the spawn loop's variable i
    joinI,        \* scan_network: index of the task being awaited
    tasks,        \* scan_network: the addresses a detection was spawned for
    completed,    \* scan_network: the tasks that have finished, in that order
    returned,     \* scan_network: the batches handed to the caller
    macPending,   \* scan_network: the tasks that are in get_mac_address
    active_devices, \* scan_network: the collected DeviceInfo addresses
    pairEnv,      \* two calls: what each probe gives for the call's address
    pairPc,       \* two calls: where each call is
    pairOutcome,  \* two calls: per call and probe, the outcome it has seen
    pairResult,   \* two calls: what each call returned
    overlap,      \* two calls: a call has taken a step while the other ran
    wol_devices,  \* NetworkManager: the WolDeviceStatus entries, in order
    vpn_status,   \* NetworkManager: the VpnStatus
    clock,        \* what Instant::now() gives, in milliseconds
    lastCall,     \* NetworkManager: the call that returned last, with its arguments
    device_operations, \* App: per operation key, its DeviceOperationState
    ops,          \* App: the operations started, each with its thread's state
    receiver,     \* App: device_feedback_receiver, as the index of its operation
    inbox,        \* App: the results sent and not yet received on that channel
    animation_time,      \* App: animation_time, in milliseconds
    connection_feedback, \* App: connection_feedback is Some(_)
    full_checked  \* the devices update_device_statuses has run detect_device on

detVars == <<host, stuck, hung, orphans, op, pc, now, probeStart, connStart, portIdx, inflight,
             started, outcome, tried, result, prev>>
scanVars == <<base_ip, online, scanPc, scanI, joinI, tasks, completed, returned, macPending,
              active_devices>>
pairVars == <<pairEnv, pairPc, pairOutcome, pairResult, overlap>>
mgrVars == <<wol_devices, vpn_status, clock, lastCall>>
appVars == <<device_operations, ops, receiver, inbox, animation_time,
             connection_feedback, full_checked>>
restVars == <<mgrVars, appVars>>
vars == <<detVars, scanVars, pairVars, restVars>>

Probes == {"ARP", "TCP_SCAN", "PING"}
NoResult == [status |-> "none", is_online |-> FALSE, method_used |-> "",
             response_time |-> <<>>]

(***************************************************************************)
(* The probes' decisions.                                                  *)
(***************************************************************************)
\* what `arp -n ip` prints, by the three substring tests the code makes
ArpStdout(entry) ==
    CASE entry = "resolved"   -> [has_ip |-> TRUE,  has_colon |-> TRUE,  incomplete |-> FALSE]
      [] entry = "incomplete" -> [has_ip |-> TRUE,  has_colon |-> FALSE, incomplete |-> TRUE]
      [] entry = "no_entry"   -> [has_ip |-> TRUE,  has_colon |-> FALSE, incomplete |-> FALSE]
      [] OTHER                -> [has_ip |-> FALSE, has_colon |-> FALSE, incomplete |-> FALSE]

\* the test without the one for a hardware address
check_arp_table_nocolon(stdout) ==
    stdout.has_ip /\ ~stdout.incomplete

\* the test for an unresolved entry written without its negation
check_arp_table_unnegated(stdout) ==
    stdout.has_ip /\ stdout.has_colon /\ stdout.incomplete

check_arp_table(stdout) ==
    stdout.has_ip /\ stdout.has_colon /\ ~stdout.incomplete

\* what `ping -c 1 -W 1 ip` gives: exit status and the two substring tests
PingOutput(replies) ==
    [success |-> replies, has_ttl |-> replies, has_time |-> replies]

ping_device_internal(output) ==
    IF output.success THEN output.has_ttl \/ output.has_time ELSE FALSE

\* quick_device_check bounding the ARP probe with detect_device's timeout
ArpTimeoutOf_full(o) == ARP_TIMEOUT

ArpTimeoutOf(o) == IF o = "detect" THEN ARP_TIMEOUT ELSE QUICK_ARP_TIMEOUT
TcpTimeoutOf(o) == IF o = "detect" THEN TCP_TIMEOUT ELSE QUICK_TCP_TIMEOUT
PortTimeoutOf(o) == IF o = "detect" THEN PORT_TIMEOUT ELSE QUICK_PORT_TIMEOUT
PortsOf(o) == IF o = "detect" THEN common_ports ELSE quick_ports

\* the times a subprocess or a peer may take when it answers within t
Delays(t) == {FastMs, t}

\* a timer that fires one answer time after the moment it was armed for
Deadline_late(start, t) == start + t + FastMs

\* the moment the timeout armed at `start` with duration t expires
Deadline(start, t) == start + t

(***************************************************************************)
(* What a call returns.                                                    *)
(***************************************************************************)
DeviceDetectionResult(is_online, method_used, response_time) ==
    [status |-> "Ok", is_online |-> is_online, method_used |-> method_used,
     response_time |-> response_time]

\* quick_device_check returns a bare bool
QuickResult(b) ==
    [status |-> "bool", is_online |-> b, method_used |-> "",
     response_time |-> <<>>]

\* the value returned when probe `method` was positive at time t
Detected(method, t) ==
    IF op = "detect" THEN DeviceDetectionResult(TRUE, method, <<t>>)
    ELSE QuickResult(TRUE)

\* the final result carrying the elapsed time
NotDetected_elapsed ==
    IF op = "detect" THEN DeviceDetectionResult(FALSE, "ALL_METHODS", <<now>>)
    ELSE QuickResult(FALSE)

NotDetected ==
    IF op = "detect" THEN DeviceDetectionResult(FALSE, "ALL_METHODS", <<>>)
    ELSE QuickResult(FALSE)

\* the probe whose await has just returned: its future is consumed
Awaited == IF started = <<>> THEN {} ELSE {started[Len(started)]}

Finish(r) ==
    /\ pc' = "done"
    /\ inflight' = inflight \ Awaited
    /\ result' = r
    /\ UNCHANGED <<probeStart, connStart, portIdx, started, tried>>

PcOf(p) == CASE p = "ARP" -> "arp" [] p = "TCP_SCAN" -> "tcp" [] OTHER -> "ping"

\* the probe is started while the one before it is kept, not dropped
StartProbe_kept(p, t) ==
    /\ pc' = PcOf(p)
    /\ probeStart' = t
    /\ connStart' = t
    /\ portIdx' = 0
    /\ inflight' = inflight \cup {p}
    /\ started' = Append(started, p)
    /\ UNCHANGED <<tried, result>>

\* arm probe p's timeout at time t and await it
StartProbe(p, t) ==
    /\ pc' = PcOf(p)
    /\ probeStart' = t
    /\ connStart' = t
    /\ portIdx' = 0
    /\ inflight' = (inflight \ Awaited) \cup {p}
    /\ started' = Append(started, p)
    /\ UNCHANGED <<tried, result>>

\* the match on the ARP probe's result r, reached at time t
AfterArp(r, t) ==
    IF r = "true" THEN Finish(Detected("ARP", t))
    ELSE StartProbe("TCP_SCAN", t)

\* a positive TCP scan that is logged but does not return
AfterTcp_fallthrough(r, t) ==
    IF op = "detect" THEN StartProbe("PING", t)
    ELSE Finish(NotDetected)

\* the TCP scan's error propagated with `?`
AfterTcp_propagate(r, t) ==
    IF r = "true" THEN Finish(Detected("TCP_SCAN", t))
    ELSE IF r = "err" THEN Finish([NoResult EXCEPT !.status = "Err"])
    ELSE IF op = "detect" THEN StartProbe("PING", t)
    ELSE Finish(NotDetected)

\* quick_device_check going on to the ping probe as detect_device does
AfterTcp_quickping(r, t) ==
    IF r = "true" THEN Finish(Detected("TCP_SCAN", t))
    ELSE StartProbe("PING", t)

\* the match on the TCP scan's result r, reached at time t
AfterTcp(r, t) ==
    IF r = "true" THEN Finish(Detected("TCP_SCAN", t))
    ELSE IF op = "detect" THEN StartProbe("PING", t)
    ELSE Finish(NotDetected)

\* the match on the ping probe's result r, reached at time t
AfterPing(r, t) ==
    IF r = "true" THEN Finish(Detected("PING", t))
    ELSE Finish(NotDetected)

\* the subprocess a probe leaves behind when its future is dropped at the
\* timeout: the Command is built without kill_on_drop
Abandoned(p, r) == IF r = "timeout" /\ p \in {"ARP", "PING"} THEN {p} ELSE {}

Settle(p, r, t) ==
    /\ now' = t
    /\ outcome' = [outcome EXCEPT ![p] = r]
    /\ orphans' = orphans \cup Abandoned(p, r)
    /\ UNCHANGED <<host, stuck, hung, op, prev, scanVars, pairVars, restVars>>

(***************************************************************************)
(* detect_device and quick_device_check.                                   *)
(***************************************************************************)
Call(o) ==
    /\ pc = "idle"
    /\ op' = o
    /\ now' = 0
    /\ StartProbe("ARP", 0)
    /\ UNCHANGED <<host, stuck, hung, orphans, outcome, prev, scanVars, pairVars, restVars>>

detect_device == Call("detect")

quick_device_check == Call("quick")

\* check_arp_table returns within the timeout: Ok(bool), or Err when arp
\* cannot be spawned
ArpReturns ==
    /\ pc = "arp"
    /\ "ARP" \notin stuck
    /\ \E spawned \in BOOLEAN, d \in Delays(ArpTimeoutOf(op)) :
         LET t == IF spawned THEN probeStart + d ELSE probeStart
             r == IF ~spawned THEN "err"
                  ELSE IF check_arp_table(ArpStdout(host.arp)) THEN "true"
                  ELSE "false"
         IN  /\ t <= Deadline(probeStart, ArpTimeoutOf(op))
             /\ Settle("ARP", r, t)
             /\ AfterArp(r, t)

\* check_arp_table awaited without a timeout: a stuck arp is waited for
ArpElapsed_unbounded ==
    /\ pc = "arp"
    /\ "ARP" \in stuck
    /\ "ARP" \notin inflight
    /\ Settle("ARP", "timeout", now)
    /\ AfterArp("timeout", now)

\* the arp subprocess has not exited when the timeout expires
ArpElapsed ==
    /\ pc = "arp"
    /\ "ARP" \in stuck
    /\ LET t == Deadline(probeStart, ArpTimeoutOf(op))
       IN  /\ Settle("ARP", "timeout", t)
           /\ AfterArp("timeout", t)

\* tcp_port_scan connecting without parsing the address first
TcpParse_unparsed ==
    /\ pc = "tcp"
    /\ portIdx = 0
    /\ portIdx' = 1
    /\ connStart' = now
    /\ tried' = Append(tried, PortsOf(op)[1])
    /\ UNCHANGED <<pc, now, probeStart, inflight, started, outcome, result>>
    /\ UNCHANGED <<host, stuck, hung, orphans, op, prev, scanVars, pairVars, restVars>>

\* tcp_port_scan up to its first await: ip.parse()?, then the first connect
TcpParse ==
    /\ pc = "tcp"
    /\ portIdx = 0
    /\ IF host.parses
       THEN /\ portIdx' = 1
            /\ connStart' = now
            /\ tried' = Append(tried, PortsOf(op)[1])
            /\ UNCHANGED <<pc, now, probeStart, inflight, started, outcome, result>>
            /\ UNCHANGED <<host, stuck, hung, orphans, op, prev, scanVars, pairVars, restVars>>
       ELSE /\ Settle("TCP_SCAN", "err", now)
            /\ AfterTcp("err", now)

\* `continue`: the next port's connect at time t, or Ok(false) after the last
NextPort(t) ==
    IF portIdx < Len(PortsOf(op))
    THEN /\ portIdx' = portIdx + 1
         /\ connStart' = t
         /\ tried' = Append(tried, PortsOf(op)[portIdx + 1])
         /\ now' = t
         /\ UNCHANGED <<pc, probeStart, inflight, started, outcome, result>>
         /\ UNCHANGED <<host, stuck, hung, orphans, op, prev, scanVars, pairVars, restVars>>
    ELSE /\ Settle("TCP_SCAN", "false", t)
         /\ AfterTcp("false", t)

\* the connect completes within the port's timeout and the scan's
Answered(d) ==
    /\ connStart + d <= Deadline(connStart, PortTimeoutOf(op))
    /\ connStart + d <= Deadline(probeStart, TcpTimeoutOf(op))

\* Ok(Ok(_)): the port accepts the connection
ConnectOk ==
    /\ pc = "tcp"
    /\ portIdx > 0
    /\ PortsOf(op)[portIdx] \in host.open
    /\ \E d \in Delays(PortTimeoutOf(op)) :
         /\ Answered(d)
         /\ Settle("TCP_SCAN", "true", connStart + d)
         /\ AfterTcp("true", connStart + d)

\* a refused connection taken for a reachable host
ConnectRefused_positive ==
    /\ pc = "tcp"
    /\ portIdx > 0
    /\ PortsOf(op)[portIdx] \notin host.open
    /\ \E d \in Delays(PortTimeoutOf(op)) :
         /\ Answered(d)
         /\ Settle("TCP_SCAN", "true", connStart + d)
         /\ AfterTcp("true", connStart + d)

\* Ok(Err(_)): the port refuses the connection
ConnectRefused ==
    /\ pc = "tcp"
    /\ portIdx > 0
    /\ PortsOf(op)[portIdx] \notin host.open
    /\ \E d \in Delays(PortTimeoutOf(op)) :
         /\ Answered(d)
         /\ NextPort(connStart + d)

\* a port that does not answer ends the scan with Ok(false)
ConnectElapsed_break ==
    /\ pc = "tcp"
    /\ portIdx > 0
    /\ PortsOf(op)[portIdx] \notin host.open
    /\ Deadline(connStart, PortTimeoutOf(op)) <= Deadline(probeStart, TcpTimeoutOf(op))
    /\ Settle("TCP_SCAN", "false", Deadline(connStart, PortTimeoutOf(op)))
    /\ AfterTcp("false", Deadline(connStart, PortTimeoutOf(op)))

\* Err(_): the port has not answered when the per-port timeout expires
ConnectElapsed ==
    /\ pc = "tcp"
    /\ portIdx > 0
    /\ PortsOf(op)[portIdx] \notin host.open
    /\ Deadline(connStart, PortTimeoutOf(op)) <= Deadline(probeStart, TcpTimeoutOf(op))
    /\ NextPort(Deadline(connStart, PortTimeoutOf(op)))

\* the scan's own timeout expires while a connect is pending
TcpElapsed ==
    /\ pc = "tcp"
    /\ portIdx > 0
    /\ LET t == Deadline(probeStart, TcpTimeoutOf(op))
       IN  /\ \/ /\ PortsOf(op)[portIdx] \notin host.open
                 /\ Deadline(connStart, PortTimeoutOf(op)) > t
              \/ \E d \in Delays(PortTimeoutOf(op)) : connStart + d > t
           /\ Settle("TCP_SCAN", "timeout", t)
           /\ AfterTcp("timeout", t)

\* ping_device_internal returns within the timeout
PingReturns ==
    /\ pc = "ping"
    /\ "PING" \notin stuck
    /\ \E spawned \in BOOLEAN, d \in Delays(PING_TIMEOUT) :
         LET t == IF spawned THEN probeStart + d ELSE probeStart
             r == IF ~spawned THEN "err"
                  ELSE IF ping_device_internal(PingOutput(host.ping)) THEN "true"
                  ELSE "false"
         IN  /\ t <= Deadline(probeStart, PING_TIMEOUT)
             /\ Settle("PING", r, t)
             /\ AfterPing(r, t)

\* the ping subprocess has not exited when the timeout expires
PingElapsed ==
    /\ pc = "ping"
    /\ "PING" \in stuck
    /\ LET t == Deadline(probeStart, PING_TIMEOUT)
       IN  /\ Settle("PING", "timeout", t)
           /\ AfterPing("timeout", t)

Hosts ==
    [parses : BOOLEAN,
     arp : {"resolved", "incomplete", "no_entry", "empty"},
     ping : BOOLEAN,
     open : {s \in SUBSET AllPorts : Cardinality(s) <= MaxOpen}]

\* VpnStatus::Disconnected, Connecting, Connected(name), Error(message)
VpnStatus(kind, name) == [kind |-> kind, name |-> name]

Disconnected == VpnStatus("Disconnected", "")

NoCall == [op |-> "none"]

\* NetworkManager::new(), and nothing called on it
MgrIdle ==
    /\ wol_devices = <<>>
    /\ vpn_status = Disconnected
    /\ clock = 0
    /\ lastCall = NoCall

DeviceNames == {"pc", "nas"}

OpKinds == {"ping", "wake", "rdp"}

\* format!("{}_{}", device_name, operation)
Key(d, kind) == <<d, kind>>

\* App::new: no operation started, no receiver
AppIdle ==
    /\ device_operations = [k \in DeviceNames \X OpKinds |-> "Idle"]
    /\ ops = <<>>
    /\ receiver = 0
    /\ inbox = <<>>
    /\ animation_time = 0
    /\ connection_feedback = FALSE
    /\ full_checked = {}

RestIdle == MgrIdle /\ AppIdle

\* the two calls that run interleaved
Calls == {"a", "b"}

\* is_online and method_used of a DeviceDetectionResult
PairResult(is_online, method_used) ==
    [is_online |-> is_online, method_used |-> method_used]

NoPairResult == PairResult(FALSE, "")

\* no call of the pair has started
PairIdle ==
    /\ pairEnv = [c \in Calls |-> [p \in Probes |-> "false"]]
    /\ pairPc = [c \in Calls |-> "idle"]
    /\ pairOutcome = [c \in Calls |-> [p \in Probes |-> "none"]]
    /\ pairResult = [c \in Calls |-> NoPairResult]
    /\ overlap = FALSE

\* the target while no detection is modelled
NoHost == [parses |-> TRUE, arp |-> "empty", ping |-> FALSE, open |-> {}]

ScanIdle ==
    /\ base_ip = <<>>
    /\ scanPc = "idle"
    /\ scanI = FIRST_HOST
    /\ joinI = 1
    /\ tasks = <<>>
    /\ completed = <<>>
    /\ returned = <<>>
    /\ macPending = {}
    /\ active_devices = <<>>

DetIdle ==
    /\ stuck \subseteq {"ARP", "PING"}
    /\ hung \subseteq stuck
    /\ orphans = {}
    /\ op = "none"
    /\ pc = "idle"
    /\ now = 0
    /\ probeStart = 0
    /\ connStart = 0
    /\ portIdx = 0
    /\ inflight = {}
    /\ started = <<>>
    /\ outcome = [p \in Probes |-> "none"]
    /\ tried = <<>>
    /\ result = NoResult
    /\ prev = <<>>

Init ==
    /\ host \in Hosts
    /\ stuck \in SUBSET {"ARP", "PING"}
    /\ hung = stuck
    /\ DetIdle
    /\ online = {}
    /\ ScanIdle
    /\ PairIdle
    /\ RestIdle

Next ==
    \/ detect_device
    \/ quick_device_check
    \/ ArpReturns
    \/ ArpElapsed
    \/ TcpParse
    \/ ConnectOk
    \/ ConnectRefused
    \/ ConnectElapsed
    \/ TcpElapsed
    \/ PingReturns
    \/ PingElapsed

Spec == Init /\ [][Next]_vars

\* the runtime keeps polling the call: a step that can be taken is taken
FairSpec == Spec /\ WF_vars(Next)

(***************************************************************************)
(* The subprocesses of abandoned probes.                                   *)
(***************************************************************************)
\* an abandoned subprocess exits by itself and the runtime reaps it
ChildExits(p) ==
    /\ p \in orphans
    /\ p \notin hung
    /\ orphans' = orphans \ {p}
    /\ UNCHANGED <<host, stuck, hung, op, pc, now, probeStart, connStart,
                   portIdx, inflight, started, outcome, tried, result, prev,
                   scanVars, pairVars, restVars>>

InitChild ==
    /\ host \in Hosts
    /\ stuck \in SUBSET {"ARP", "PING"}
    /\ hung \in SUBSET stuck
    /\ DetIdle
    /\ online = {}
    /\ ScanIdle
    /\ PairIdle
    /\ RestIdle

NextChild ==
    \/ Next
    \/ \E p \in {"ARP", "PING"} : ChildExits(p)

\* the call is polled on, and a subprocess that is going to exit does exit
SpecChild == InitChild /\ [][NextChild]_vars /\ WF_vars(NextChild)

(***************************************************************************)
(* detect_device called twice in succession for the same target.           *)
(***************************************************************************)
\* the probes of a call that ended in Err or in their timeout
Failed(o) == {p \in Probes : o[p] \in {"err", "timeout"}}

\* the second call: every local starts afresh, the target is the same, and
\* whether its subprocesses exit in time is open again
CallAgain ==
    /\ pc = "done"
    /\ op = "detect"
    /\ prev = <<>>
    /\ prev' = <<[is_online |-> result.is_online, failed |-> Failed(outcome)]>>
    /\ stuck' \in SUBSET {"ARP", "PING"}
    /\ hung' = stuck'
    /\ pc' = PcOf("ARP")
    /\ now' = 0
    /\ probeStart' = 0
    /\ connStart' = 0
    /\ portIdx' = 0
    /\ inflight' = {"ARP"}
    /\ started' = <<"ARP">>
    /\ outcome' = [p \in Probes |-> "none"]
    /\ tried' = <<>>
    /\ result' = NoResult
    /\ UNCHANGED <<host, orphans, op, scanVars, pairVars, restVars>>

NextTwice ==
    \/ Next
    \/ CallAgain

SpecTwice == Init /\ [][NextTwice]_vars

(***************************************************************************)
(* Two detect_device calls for different addresses, interleaved probe by   *)
(* probe, as the tasks spawned by scan_network are.                        *)
(***************************************************************************)
ProbeResults == {"true", "false", "err", "timeout"}

ProbeAt(p) == CASE p = "arp" -> "ARP" [] p = "tcp" -> "TCP_SCAN" [] OTHER -> "PING"

\* the match on the result r of probe p: where the call goes and what it
\* has returned
AfterProbe(p, r) ==
    IF r = "true" THEN [pc |-> "done", result |-> PairResult(TRUE, p)]
    ELSE IF p = "ARP" THEN [pc |-> "tcp", result |-> NoPairResult]
    ELSE IF p = "TCP_SCAN" THEN [pc |-> "ping", result |-> NoPairResult]
    ELSE [pc |-> "done", result |-> PairResult(FALSE, "ALL_METHODS")]

\* one slot that every call writes to
Store_shared(f, c, v) == [d \in Calls |-> v]

\* a call's locals are its own: call c's value becomes v
Store(f, c, v) == [f EXCEPT ![c] = v]

InFlight(c) == pairPc[c] \in {"arp", "tcp", "ping"}

\* a step of call c runs alongside the other call
Overlaps(c) == overlap \/ \E d \in Calls \ {c} : InFlight(d)

\* call c starts: its first probe
PairCall(c) ==
    /\ pairPc[c] = "idle"
    /\ pairPc' = Store(pairPc, c, "arp")
    /\ overlap' = Overlaps(c)
    /\ UNCHANGED <<pairEnv, pairOutcome, pairResult, detVars, scanVars, restVars>>

\* the probe call c awaits ends, with what its own address gives
PairProbe(c) ==
    /\ InFlight(c)
    /\ LET p == ProbeAt(pairPc[c])
           r == pairEnv[c][p]
       IN  /\ pairOutcome' = Store(pairOutcome, c, [pairOutcome[c] EXCEPT ![p] = r])
           /\ pairPc' = Store(pairPc, c, AfterProbe(p, r).pc)
           /\ pairResult' = Store(pairResult, c, AfterProbe(p, r).result)
    /\ overlap' = Overlaps(c)
    /\ UNCHANGED <<pairEnv, detVars, scanVars, restVars>>

InitPair ==
    /\ host = NoHost
    /\ stuck = {}
    /\ hung = {}
    /\ DetIdle
    /\ online = {}
    /\ ScanIdle
    /\ pairEnv \in [Calls -> [Probes -> ProbeResults]]
    /\ pairPc = [c \in Calls |-> "idle"]
    /\ pairOutcome = [c \in Calls |-> [p \in Probes |-> "none"]]
    /\ pairResult = [c \in Calls |-> NoPairResult]
    /\ overlap = FALSE
    /\ RestIdle

NextPair ==
    \/ \E c \in Calls : PairCall(c)
    \/ \E c \in Calls : PairProbe(c)

SpecPair == InitPair /\ [][NextPair]_vars

(***************************************************************************)
(* scan_network.                                                           *)
(***************************************************************************)
\* arguments tried: base_ip.split('.')
BaseIps ==
    {<<"192", "168", "1">>, <<"192", "168", "1", "0">>, <<"10", "0", "0", "57">>,
     <<"192", "168">>, <<"192", "168", "1", "0", "0">>}

\* last octets that may belong to a host that is up
SampleHosts ==
    {FIRST_HOST - 1, FIRST_HOST, FIRST_HOST + 1, LAST_HOST, LAST_HOST + 1}

\* format!("{}.{}.{}", parts[0], parts[1], parts[2])
network_base(parts) == SubSeq(parts, 1, 3)

\* format!("{}.{}", network_base, i)
HostIp(base, i) == Append(base, i)

\* the loop running over the whole last octet
HostRange_all == (FIRST_HOST - 1)..(LAST_HOST + 1)

\* the hosts the loop `for i in 1..=254` visits
HostRange == FIRST_HOST..LAST_HOST

\* the early return of scan_network
BadBase(parts) == Len(parts) # BASE_IP_PARTS

\* the call, up to the loop over the hosts
scan_network ==
    /\ scanPc = "idle"
    /\ \E b \in BaseIps :
         /\ base_ip' = b
         /\ IF BadBase(b)
            THEN scanPc' = "done" /\ returned' = Append(returned, active_devices)
            ELSE scanPc' = "spawn" /\ UNCHANGED returned
    /\ UNCHANGED <<online, scanI, joinI, tasks, completed, active_devices, macPending, detVars, pairVars, restVars>>

\* one iteration of the loop: tokio::spawn of the host's detection
SpawnTask ==
    /\ scanPc = "spawn"
    /\ scanI \in HostRange
    /\ tasks' = Append(tasks, HostIp(network_base(base_ip), scanI))
    /\ scanI' = scanI + 1
    /\ UNCHANGED <<base_ip, online, scanPc, joinI, completed, returned,
                   active_devices, macPending, detVars, pairVars, restVars>>

\* the loop over the hosts ends
SpawnDone ==
    /\ scanPc = "spawn"
    /\ scanI \notin HostRange
    /\ scanPc' = "join"
    /\ UNCHANGED <<base_ip, online, scanI, joinI, tasks, completed, returned,
                   active_devices, macPending, detVars, pairVars, restVars>>

\* how the task of a host that is up may end: its detection finds the host,
\* its detection misses it, or the task fails.  (detect_device returns no
\* Err, so detect_device_detailed has none to pass on.)
Outs == {"online", "offline", "panic"}

\* the hosts that are up; the detection of any other host is negative
Tracked(ip) == ip[Len(ip)] \in online

HasCompleted(ip) == \E k \in 1..Len(completed) : completed[k].ip = ip

\* how the task spawned for ip ended
OutOf(ip) ==
    IF HasCompleted(ip)
    THEN (CHOOSE c \in Range(completed) : c.ip = ip).out
    ELSE "offline"

\* the task of a host that is up finishes, at any moment while scan_network
\* awaits (the spawn loop has no await: scan_network sees no task earlier)
TaskFinishes ==
    /\ scanPc = "join"
    /\ \E h \in online \cap HostRange, out \in Outs :
         LET ip == HostIp(network_base(base_ip), h)
         IN  /\ ~HasCompleted(ip)
             /\ ip \notin macPending
             /\ out = "online" => "ARP" \notin hung
             /\ completed' = Append(completed, [ip |-> ip, out |-> out])
    /\ UNCHANGED <<base_ip, online, scanPc, scanI, joinI, tasks, returned,
                   active_devices, macPending, detVars, pairVars, restVars>>

\* a task that yields Some(DeviceInfo) whatever its detection returned
TaskValue_always(out) == "Some"

\* the value of the spawned task: the match on detect_device_detailed
TaskValue(out) == IF out = "online" THEN "Some" ELSE "None"

\* what task.await gives: Err(JoinError) for a task that failed
JoinValue(out) == IF out = "panic" THEN "JoinError" ELSE TaskValue(out)

\* the entry put in front of those collected so far
Push_front(acc, ip) == <<ip>> \o acc

\* active_devices.push(device_info)
Push(acc, ip) == Append(acc, ip)

\* if let Ok(Some(device_info)) = task.await { push }
TaskResult(acc, ip) ==
    IF JoinValue(OutOf(ip)) = "Some" THEN Push(acc, ip) ELSE acc

\* a task that is still running taken for one that returned None
JoinTask_nowait ==
    /\ scanPc = "join"
    /\ joinI <= Len(tasks)
    /\ active_devices' = TaskResult(active_devices, tasks[joinI])
    /\ joinI' = joinI + 1
    /\ UNCHANGED <<base_ip, online, scanPc, scanI, tasks, completed, returned, macPending, detVars, pairVars, restVars>>

\* task.await of the next task, in the order of spawning: it returns when
\* that task has finished
JoinTask ==
    /\ scanPc = "join"
    /\ joinI <= Len(tasks)
    /\ Tracked(tasks[joinI]) => HasCompleted(tasks[joinI])
    /\ active_devices' = TaskResult(active_devices, tasks[joinI])
    /\ joinI' = joinI + 1
    /\ UNCHANGED <<base_ip, online, scanPc, scanI, tasks, completed, returned, macPending, detVars, pairVars, restVars>>

\* every task was awaited: active_devices is returned
JoinDone ==
    /\ scanPc = "join"
    /\ joinI > Len(tasks)
    /\ scanPc' = "done"
    /\ returned' = Append(returned, active_devices)
    /\ UNCHANGED <<base_ip, online, scanI, joinI, tasks, completed, active_devices,
                   macPending, detVars, pairVars, restVars>>

InitScan ==
    /\ host = NoHost
    /\ stuck = {}
    /\ hung = {}
    /\ DetIdle
    /\ online \in {s \in SUBSET SampleHosts : Cardinality(s) <= MaxOnline}
    /\ ScanIdle
    /\ PairIdle
    /\ RestIdle

(***************************************************************************)
(* detect_device_detailed inside a task: the MAC lookup after a positive   *)
(* detection.                                                              *)
(***************************************************************************)
\* detect_device returned is_online for a host that is up: the task goes on
\* to get_mac_address, which awaits arp's output with no timeout
DetectedOnline ==
    /\ scanPc = "join"
    /\ \E h \in online \cap HostRange :
         LET ip == HostIp(network_base(base_ip), h)
         IN  /\ ~HasCompleted(ip)
             /\ ip \notin macPending
             /\ macPending' = macPending \cup {ip}
    /\ UNCHANGED <<base_ip, online, scanPc, scanI, joinI, tasks, completed, returned,
                   active_devices, detVars, pairVars, restVars>>

\* arp exits: get_mac_address returns, Ok or Err, and the task ends with
\* Some(DeviceInfo)
MacLookupReturns ==
    /\ scanPc = "join"
    /\ "ARP" \notin hung
    /\ \E ip \in macPending :
         /\ macPending' = macPending \ {ip}
         /\ completed' = Append(completed, [ip |-> ip, out |-> "online"])
    /\ UNCHANGED <<base_ip, online, scanPc, scanI, joinI, tasks, returned,
                   active_devices, detVars, pairVars, restVars>>

InitScanMac ==
    /\ host = NoHost
    /\ stuck \in SUBSET {"ARP"}
    /\ hung = stuck
    /\ DetIdle
    /\ online \in {s \in SUBSET SampleHosts : Cardinality(s) <= MaxOnline}
    /\ ScanIdle
    /\ PairIdle
    /\ RestIdle

NextScan ==
    \/ scan_network
    \/ SpawnTask
    \/ SpawnDone
    \/ TaskFinishes
    \/ JoinTask
    \/ JoinDone

SpecScan == InitScan /\ [][NextScan]_vars

NextScanMac ==
    \/ NextScan
    \/ DetectedOnline
    \/ MacLookupReturns

\* every task and scan_network itself are polled on
SpecScanMac == InitScanMac /\ [][NextScanMac]_vars /\ WF_vars(NextScanMac)

(***************************************************************************)
(* NetworkManager: the list of Wake-on-LAN devices.                        *)
(***************************************************************************)
VpnNames == {"home", "work"}

\* the lists of devices a configuration may hold, duplicates included
DeviceConfigs == UNION {[1..n -> DeviceNames] : n \in 0..MaxDevices}

\* the lists of VPN configurations, by name
VpnConfigs == {<<>>, <<"home">>, <<"home", "work">>}

\* what check_vpn_status gives for each configuration of a list
CheckResults(cfgs) == [1..Len(cfgs) -> {"true", "false", "err"}]

\* the first configuration whose check is Ok(true), 0 if there is none
FirstConnected(res) ==
    IF \E k \in 1..Len(res) : res[k] = "true"
    THEN CHOOSE k \in 1..Len(res) :
            res[k] = "true" /\ \A j \in 1..(k - 1) : res[j] # "true"
    ELSE 0

WolDeviceStatus(name, is_online, last_checked) ==
    [name |-> name, is_online |-> is_online, last_checked |-> last_checked]

\* a new entry: offline, and due for a check at once
NewStatus(name, t) == WolDeviceStatus(name, FALSE, t - FORCE_CHECK_MS)

NamesOf(wol) == {wol[k].name : k \in 1..Len(wol)}

\* NetworkManager::initialize
MgrInitialize ==
    /\ lastCall = NoCall
    /\ \E vpns \in VpnConfigs, devs \in DeviceConfigs :
         /\ \E res \in CheckResults(vpns) :
              vpn_status' = IF FirstConnected(res) > 0
                            THEN VpnStatus("Connected", vpns[FirstConnected(res)])
                            ELSE vpn_status
         /\ wol_devices' = [k \in 1..Len(devs) |-> NewStatus(devs[k], clock)]
    /\ lastCall' = [op |-> "initialize"]
    /\ UNCHANGED <<clock, detVars, scanVars, pairVars, appVars>>

\* a sync that removes nothing
Retain_all(wol, cfg) == wol

\* wol_devices.retain(..): the entries whose name the configuration has
Retain(wol, cfg) ==
    SelectSeq(wol, LAMBDA s : \E k \in 1..Len(cfg) : cfg[k] = s.name)

\* the loop that pushes the configured devices not yet in the list
RECURSIVE AddNew(_, _, _)
AddNew(wol, cfg, t) ==
    IF cfg = <<>> THEN wol
    ELSE AddNew(IF Head(cfg) \in NamesOf(wol) THEN wol
                ELSE Append(wol, NewStatus(Head(cfg), t)),
                Tail(cfg), t)

sync_wol_devices(wol, cfg, t) == AddNew(Retain(wol, cfg), cfg, t)

\* NetworkManager::sync_wol_devices(config_devices)
SyncWolDevices ==
    /\ lastCall # NoCall
    /\ \E cfg \in DeviceConfigs :
         /\ wol_devices' = sync_wol_devices(wol_devices, cfg, clock)
         /\ lastCall' = [op |-> "sync", config |-> cfg, pre |-> wol_devices,
                         at |-> clock]
    /\ UNCHANGED <<vpn_status, clock, detVars, scanVars, pairVars, appVars>>

\* the first entry named n gets the detected status at time t
SetStatus(wol, n, b, t) ==
    IF n \in NamesOf(wol)
    THEN LET k == CHOOSE i \in 1..Len(wol) :
                     wol[i].name = n /\ \A j \in 1..(i - 1) : wol[j].name # n
         IN  [wol EXCEPT ![k] = WolDeviceStatus(n, b, t)]
    ELSE wol

\* NetworkManager::check_device_status(device): detect_device, then the
\* entry of that name is updated
CheckDeviceStatus ==
    /\ lastCall # NoCall
    /\ clock + TickMs <= MaxClock
    /\ \E n \in DeviceNames, b \in BOOLEAN :
         wol_devices' = SetStatus(wol_devices, n, b, clock + TickMs)
    /\ clock' = clock + TickMs
    /\ lastCall' = [op |-> "check"]
    /\ UNCHANGED <<vpn_status, detVars, scanVars, pairVars, appVars>>

InitMgr ==
    /\ host = NoHost
    /\ stuck = {}
    /\ hung = {}
    /\ DetIdle
    /\ online = {}
    /\ ScanIdle
    /\ PairIdle
    /\ MgrIdle
    /\ AppIdle

NextSync ==
    \/ MgrInitialize
    \/ SyncWolDevices
    \/ CheckDeviceStatus

SpecSync == InitMgr /\ [][NextSync]_vars

(***************************************************************************)
(* NetworkManager: the VPN status.                                         *)
(***************************************************************************)
Running == lastCall.op = "connect_vpn" /\ lastCall.state = "running"

\* connect_vpn up to the await of the underlying connect
ConnectVpnStart ==
    /\ lastCall # NoCall
    /\ ~Running
    /\ \E n \in VpnNames :
         lastCall' = [op |-> "connect_vpn", state |-> "running", config |-> n,
                      ok |-> FALSE]
    /\ vpn_status' = VpnStatus("Connecting", "")
    /\ UNCHANGED <<wol_devices, clock, detVars, scanVars, pairVars, appVars>>

\* a failed connect that leaves the status as it is
ConnectResult_silent(n, ok) ==
    IF ok THEN VpnStatus("Connected", n) ELSE vpn_status

\* the match on the result of the underlying connect
ConnectResult(n, ok) ==
    IF ok THEN VpnStatus("Connected", n) ELSE VpnStatus("Error", "connect failed")

\* the underlying connect returns, and connect_vpn with it
ConnectVpnReturns ==
    /\ Running
    /\ \E ok \in BOOLEAN :
         /\ vpn_status' = ConnectResult(lastCall.config, ok)
         /\ lastCall' = [lastCall EXCEPT !.state = "returned", !.ok = ok]
    /\ UNCHANGED <<wol_devices, clock, detVars, scanVars, pairVars, appVars>>

\* NetworkManager::disconnect_vpn
DisconnectVpn ==
    /\ lastCall # NoCall
    /\ ~Running
    /\ \E ok \in BOOLEAN :
         vpn_status' = IF ok THEN Disconnected
                       ELSE VpnStatus("Error", "disconnect failed")
    /\ lastCall' = [op |-> "disconnect_vpn"]
    /\ UNCHANGED <<wol_devices, clock, detVars, scanVars, pairVars, appVars>>

Check(n, r) == [name |-> n, result |-> r]

\* the checks of the loop over the configurations, up to the k-th
LoopChecks(cfgs, res, k) == [j \in 1..k |-> Check(cfgs[j], res[j])]

\* a refresh that keeps the status when no VPN is connected
AfterLoop_keep(status) == status

\* no configuration is connected: Disconnected, unless Connecting
AfterLoop(status) ==
    IF status.kind = "Connecting" THEN status ELSE Disconnected

\* refresh_vpn_status on `status`: r1 is what the check of the VPN marked
\* connected gives, res what the checks of the loop give; the new status and
\* the checks made
refresh_vpn_status(status, cfgs, r1, res) ==
    LET marked == status.kind = "Connected" /\ status.name \in Range(cfgs)
        first == IF marked THEN <<Check(status.name, r1)>> ELSE <<>>
        k == FirstConnected(res)
    IN  IF marked /\ r1 # "err"
        THEN [status |-> IF r1 = "false" THEN Disconnected ELSE status,
              checks |-> first]
        ELSE IF k > 0
        THEN [status |-> VpnStatus("Connected", cfgs[k]),
              checks |-> first \o LoopChecks(cfgs, res, k)]
        ELSE [status |-> AfterLoop(status),
              checks |-> first \o LoopChecks(cfgs, res, Len(cfgs))]

\* NetworkManager::refresh_vpn_status(vpn_configs)
RefreshVpnStatus ==
    /\ lastCall # NoCall
    /\ ~Running
    /\ \E cfgs \in VpnConfigs, r1 \in {"true", "false", "err"} :
         \E res \in CheckResults(cfgs) :
           LET r == refresh_vpn_status(vpn_status, cfgs, r1, res)
           IN  /\ vpn_status' = r.status
               /\ lastCall' = [op |-> "refresh", pre |-> vpn_status,
                               checks |-> r.checks]
    /\ UNCHANGED <<wol_devices, clock, detVars, scanVars, pairVars, appVars>>

NextVpn ==
    \/ MgrInitialize
    \/ ConnectVpnStart
    \/ ConnectVpnReturns
    \/ DisconnectVpn
    \/ RefreshVpnStatus

SpecVpn == InitMgr /\ [][NextVpn]_vars

(***************************************************************************)
(* NetworkManager::wake_device.                                            *)
(***************************************************************************)
Waking(s) == lastCall.op = "wake" /\ lastCall.state = s

\* wol::wake_device(device): the packet is sent, or not
WakeSend ==
    /\ lastCall # NoCall
    /\ lastCall.op # "wake"
    /\ \E n \in DeviceNames, ok \in BOOLEAN :
         lastCall' = [op |-> "wake", state |-> IF ok THEN "sleep" ELSE "returned",
                      device |-> n, ok |-> ok, i |-> 0, waits |-> <<>>,
                      polls |-> <<>>, returns |-> IF ok THEN "pending" ELSE "Err"]
    /\ UNCHANGED <<wol_devices, vpn_status, clock, detVars, scanVars, pairVars, appVars>>

\* Duration::from_millis(2000 + (i * 1000))
WakeDelay(i) == WAKE_BASE_MS + i * WAKE_STEP_MS

\* tokio::time::sleep(delay)
WakeSleep ==
    /\ Waking("sleep")
    /\ clock' = clock + WakeDelay(lastCall.i)
    /\ lastCall' = [lastCall EXCEPT !.state = "check",
                                    !.waits = Append(@, WakeDelay(lastCall.i))]
    /\ UNCHANGED <<wol_devices, vpn_status, detVars, scanVars, pairVars, appVars>>

\* a loop that keeps polling after the device was found online
WakeNext_nobreak(is_online, i) ==
    IF i + 1 < WAKE_ATTEMPTS THEN "sleep" ELSE "returned"

\* `break` at the first positive check, or the end of `for i in 0..5`
WakeNext(is_online, i) ==
    IF is_online THEN "returned"
    ELSE IF i + 1 < WAKE_ATTEMPTS THEN "sleep" ELSE "returned"

\* self.check_device_status(device) inside the loop
WakeCheck ==
    /\ Waking("check")
    /\ \E is_online \in BOOLEAN :
         /\ wol_devices' = SetStatus(wol_devices, lastCall.device, is_online,
                                     clock + TickMs)
         /\ lastCall' = [lastCall EXCEPT
                           !.state = WakeNext(is_online, lastCall.i),
                           !.i = @ + 1,
                           !.polls = Append(@, is_online),
                           !.returns = IF WakeNext(is_online, lastCall.i) = "returned"
                                       THEN "Ok" ELSE @]
    /\ clock' = clock + TickMs
    /\ UNCHANGED <<vpn_status, detVars, scanVars, pairVars, appVars>>

NextWake ==
    \/ MgrInitialize
    \/ WakeSend
    \/ WakeSleep
    \/ WakeCheck

SpecWake == InitMgr /\ [][NextWake]_vars

(***************************************************************************)
(* NetworkManager::quick_update_device_statuses.                           *)
(***************************************************************************)
\* how long one quick_device_check may take: the ARP probe's timeout, or
\* both its timeouts
QuickDurations == {QUICK_ARP_TIMEOUT, QUICK_ARP_TIMEOUT + QUICK_TCP_TIMEOUT}

\* a loop that checks every device
QuickStale_always(s, t) == TRUE

\* device_status.last_checked.elapsed() > Duration::from_secs(10), at time t
QuickStale(s, t) == t - s.last_checked > QUICK_STALE_MS

\* the loop over the devices from the k-th on, reached at time t: res and
\* durs are what quick_device_check gives and how long it takes per device;
\* the list, the time at the end, and when each device was reached
RECURSIVE QuickLoop(_, _, _, _, _, _)
QuickLoop(wol, k, t, res, durs, reached) ==
    IF k > Len(wol) THEN [wol |-> wol, t |-> t, reached |-> reached]
    ELSE IF QuickStale(wol[k], t)
    THEN QuickLoop([wol EXCEPT ![k] = WolDeviceStatus(wol[k].name, res[k], t + durs[k])],
                   k + 1, t + durs[k], res, durs, Append(reached, t))
    ELSE QuickLoop(wol, k + 1, t, res, durs, Append(reached, t))

\* NetworkManager::quick_update_device_statuses
QuickUpdate ==
    /\ lastCall # NoCall
    /\ \E res \in [1..Len(wol_devices) -> BOOLEAN],
          durs \in [1..Len(wol_devices) -> QuickDurations] :
         LET r == QuickLoop(wol_devices, 1, clock, res, durs, <<>>)
         IN  /\ wol_devices' = r.wol
             /\ clock' = r.t
             /\ lastCall' = [op |-> "quick", pre |-> wol_devices, at |-> clock,
                             res |-> res, durs |-> durs, reached |-> r.reached]
    /\ UNCHANGED <<vpn_status, detVars, scanVars, pairVars, appVars>>

\* how old an entry may be when quick_update_device_statuses is called
Ages == {QUICK_STALE_MS - TickMs, QUICK_STALE_MS, QUICK_STALE_MS + FastMs,
         FORCE_CHECK_MS}

\* the manager some time after initialize, with devices of every age
InitQuick ==
    /\ host = NoHost
    /\ stuck = {}
    /\ hung = {}
    /\ DetIdle
    /\ online = {}
    /\ ScanIdle
    /\ PairIdle
    /\ AppIdle
    /\ vpn_status = Disconnected
    /\ clock = 0
    /\ lastCall = [op |-> "initialize"]
    /\ \E n \in 0..MaxDevices :
         wol_devices \in [1..n -> {WolDeviceStatus(d, b, clock - a) :
                                     d \in DeviceNames, b \in BOOLEAN, a \in Ages}]

\* one call on each of the lists
NextQuick == lastCall.op # "quick" /\ QuickUpdate

SpecQuick == InitQuick /\ [][NextQuick]_vars

(***************************************************************************)
(* App: device operations run on background threads.                       *)
(***************************************************************************)
\* the App after App::new, with both devices configured
InitOps ==
    /\ host = NoHost
    /\ stuck = {}
    /\ hung = {}
    /\ DetIdle
    /\ online = {}
    /\ ScanIdle
    /\ PairIdle
    /\ AppIdle
    /\ vpn_status = Disconnected
    /\ clock = 0
    /\ lastCall = [op |-> "initialize"]
    /\ wol_devices = <<NewStatus("pc", clock), NewStatus("nas", clock)>>

\* what the thread works on: a clone of the manager for Wake and Ping
CloneFor(kind) == IF kind = "rdp" THEN <<>> ELSE wol_devices

\* App::start_device_operation: the state is Loading, a thread is spawned
\* with a new channel, and the new receiver replaces the one held; the
\* button of an operation that is Loading is disabled
StartDeviceOperation ==
    /\ Len(ops) < MaxOps
    /\ \E d \in DeviceNames, kind \in OpKinds :
         /\ device_operations[Key(d, kind)] # "Loading"
         /\ device_operations' = [device_operations EXCEPT ![Key(d, kind)] = "Loading"]
         /\ ops' = Append(ops, [device |-> d, kind |-> kind, state |-> "running",
                                 manager |-> CloneFor(kind), success |-> FALSE,
                                 is_online |-> FALSE, checked |-> 0])
    /\ receiver' = Len(ops) + 1
    /\ inbox' = <<>>
    /\ UNCHANGED <<animation_time, connection_feedback, full_checked,
                   mgrVars, detVars, scanVars, pairVars>>

\* the thread's manager after check_device_status found is_online = b at t
ThreadManager(i, d, b, t) == SetStatus(ops[i].manager, d, b, t)

\* tx.send(result): it reaches the channel only while its receiver lives
Send(i, msg) == IF receiver = i THEN Append(inbox, msg) ELSE inbox

\* the thread of operation i finishes its work and sends its result
ThreadCompletes ==
    \E i \in 1..Len(ops), b \in BOOLEAN, ok \in BOOLEAN :
      LET o == ops[i]
          t == clock + TickMs
          success == IF o.kind = "ping" THEN TRUE ELSE ok
          checks == o.kind = "ping" \/ (o.kind = "wake" /\ ok)
      IN  /\ o.state = "running"
          /\ o.kind = "ping" => ok
          /\ ~checks => ~b
          /\ ops' = [ops EXCEPT ![i] =
                       [o EXCEPT !.state = "sent", !.success = success,
                                 !.is_online = b,
                                 !.checked = IF checks THEN t ELSE 0,
                                 !.manager = IF checks
                                             THEN ThreadManager(i, o.device, b, t)
                                             ELSE o.manager]]
          /\ inbox' = Send(i, [key |-> Key(o.device, o.kind), success |-> success])
          /\ clock' = t
          /\ UNCHANGED <<device_operations, receiver, animation_time,
                         connection_feedback, full_checked, wol_devices, vpn_status,
                         lastCall, detVars, scanVars, pairVars>>

\* App::poll_device_operations: one try_recv on the receiver held
PollDeviceOperations ==
    /\ receiver # 0
    /\ IF inbox # <<>>
       THEN /\ device_operations' =
                 [device_operations EXCEPT ![Head(inbox).key] =
                     IF Head(inbox).success THEN "Success" ELSE "Error"]
            /\ inbox' = Tail(inbox)
            /\ connection_feedback' = TRUE
            /\ animation_time' = 0
            /\ UNCHANGED receiver
       ELSE /\ ops[receiver].state = "sent"
            /\ receiver' = 0
            /\ UNCHANGED <<device_operations, inbox, animation_time,
                           connection_feedback>>
    /\ UNCHANGED <<ops, full_checked, mgrVars, detVars, scanVars, pairVars>>

NextOps ==
    \/ StartDeviceOperation
    \/ ThreadCompletes
    \/ PollDeviceOperations

\* every thread runs to its end and the App's frames keep polling
SpecOps ==
    /\ InitOps
    /\ [][NextOps]_vars
    /\ WF_vars(ThreadCompletes)
    /\ WF_vars(PollDeviceOperations)

(***************************************************************************)
(* App::update: the periodic status updates of a frame.                    *)
(***************************************************************************)
\* the App after App::new, with a configuration of zero, one or two devices
InitFrames ==
    /\ host = NoHost
    /\ stuck = {}
    /\ hung = {}
    /\ DetIdle
    /\ online = {}
    /\ ScanIdle
    /\ PairIdle
    /\ AppIdle
    /\ vpn_status = Disconnected
    /\ clock = 0
    /\ lastCall = [op |-> "initialize"]
    /\ wol_devices \in {<<>>, <<NewStatus("pc", clock)>>,
                         <<NewStatus("pc", clock), NewStatus("nas", clock)>>}

\* self.config.wol_devices, unchanged since initialize
ConfigOf(wol) == [k \in 1..Len(wol) |-> wol[k].name]

\* animation_time.rem_euclid(period) < 0.1
Window(a, period) == a % period < WINDOW_MS

\* the longest a quick_device_check takes: both probes run to their timeout
QuickSlowMs == QUICK_ARP_TIMEOUT + QUICK_TCP_TIMEOUT

\* the longest a detect_device takes: all three methods run to their timeout
DetectSlowMs == ARP_TIMEOUT + TCP_TIMEOUT + PING_TIMEOUT

\* device_status.last_checked.elapsed() > Duration::from_secs(30), at time t
FullStale(s, t) == t - s.last_checked > FULL_STALE_MS

\* the first loop of update_device_statuses from the k-th device on, reached
\* at time t: the indices it has run detect_device on, and the time at the end
RECURSIVE FullLoop(_, _, _, _)
FullLoop(wol, k, t, updates) ==
    IF k > Len(wol) THEN [updates |-> updates, t |-> t]
    ELSE IF FullStale(wol[k], t)
    THEN FullLoop(wol, k + 1, t + DetectSlowMs, updates \cup {k})
    ELSE FullLoop(wol, k + 1, t, updates)

\* the second loop: every update is applied with last_checked = now
ApplyUpdates(wol, updates, res, t) ==
    [k \in 1..Len(wol) |->
        IF k \in updates THEN WolDeviceStatus(wol[k].name, res[k], t) ELSE wol[k]]

\* what the checks of an update can find, per device; nothing is asked when
\* the update is not due
Answers(wol, due) ==
    IF due THEN [1..Len(wol) -> BOOLEAN] ELSE {[k \in 1..Len(wol) |-> FALSE]}

\* one frame of App::update with no operation in flight and no VPN
\* configured: the time step, the feedback timeout, sync_wol_devices, then
\* the quick update and the full update in their windows
Frame ==
    /\ animation_time < MaxAnimMs
    /\ receiver = 0
    /\ LET stepped == animation_time + FRAME_STEP_MS
           clear == connection_feedback /\ stepped > FEEDBACK_MS
           a == IF clear THEN 0 ELSE stepped
           t0 == clock + FRAME_STEP_MS
           synced == sync_wol_devices(wol_devices, ConfigOf(wol_devices), t0)
           some == Len(synced) > 0
           quickDue == Window(a, QUICK_PERIOD_MS) /\ some
           fullDue == Window(a, FULL_PERIOD_MS) /\ some
       IN  \E quick \in Answers(synced, quickDue), full \in Answers(synced, fullDue) :
             LET q == IF quickDue
                      THEN QuickLoop(synced, 1, t0, quick,
                                     [k \in 1..Len(synced) |-> QuickSlowMs], <<>>)
                      ELSE [wol |-> synced, t |-> t0]
                 f == IF fullDue
                      THEN FullLoop(q.wol, 1, q.t, {})
                      ELSE [updates |-> {}, t |-> q.t]
             IN  /\ animation_time' = a
                 /\ connection_feedback' = (connection_feedback /\ ~clear)
                 /\ wol_devices' = ApplyUpdates(q.wol, f.updates, full, f.t)
                 /\ clock' = f.t
                 /\ full_checked' =
                        full_checked \cup {q.wol[k].name : k \in f.updates}
    /\ UNCHANGED <<device_operations, ops, receiver, inbox, vpn_status, lastCall,
                   detVars, scanVars, pairVars>>

NextFrames == Frame

\* the frames keep coming: request_repaint_after
SpecFrames == InitFrames /\ [][NextFrames]_vars /\ WF_vars(Frame)

(***************************************************************************)
(* The claims.                                                             *)
(***************************************************************************)
Returned == op = "detect" /\ pc = "done"
Negative == {"false", "err", "timeout"}
FullPlan == <<"ARP", "TCP_SCAN", "PING">>
IsPrefix(a, b) == Len(a) <= Len(b) /\ a = SubSeq(b, 1, Len(a))

\* C1: a host that accepts connections on port 443 and shows no resolved
\* ARP entry and no ping reply is returned online with method TCP_SCAN by
\* detect_device, whatever the other ports do.
C1_Port443Detected ==
    (/\ Returned
     /\ host.parses
     /\ 443 \in host.open
     /\ ~check_arp_table(ArpStdout(host.arp))
     /\ ~host.ping)
    => (result.is_online /\ result.method_used = "TCP_SCAN")

\* C2 as stated: scan_network of the three-part prefix "192.168.1" starts a
\* detection for exactly 192.168.1.1 .. 192.168.1.254.
C2_ThreePartSweep ==
    (scanPc = "done" /\ base_ip = <<"192", "168", "1">>)
    => /\ Len(tasks) = 254
       /\ \A i \in 1..254 : tasks[i] = <<"192", "168", "1", i>>

\* C2 as amended: for an argument of four '.'-separated parts a.b.c.d the
\* detections started are exactly a.b.c.1 .. a.b.c.254, in that order, never
\* a.b.c.0 or a.b.c.255; for any other argument no detection is started.
C2_FourPartSweep ==
    /\ \A k \in 1..Len(tasks) :
         tasks[k] = <<base_ip[1], base_ip[2], base_ip[3], k>> /\ k \in 1..254
    /\ scanPc \in {"join", "done"} =>
         Len(tasks) = (IF Len(base_ip) = 4 THEN 254 ELSE 0)

C2_Witness ==
    /\ scanPc = "done"
    /\ base_ip = <<"192", "168", "1", "0">>
    /\ Len(tasks) = 254
    /\ tasks[254] = <<"192", "168", "1", 254>>

\* C3: within one detect_device call the probes start in the order ARP,
\* TCP scan, ping, each only after the one before it has returned or timed
\* out, and never two probes are in flight.
C3_ProbesSequential ==
    op = "detect" =>
      /\ IsPrefix(started, FullPlan)
      /\ Cardinality(inflight) <= 1
      /\ \A k \in 1..Len(started) :
           IF k < Len(started) \/ pc = "done"
           THEN outcome[started[k]] # "none" /\ started[k] \notin inflight
           ELSE outcome[started[k]] = "none" /\ inflight = {started[k]}

C3_Witness ==
    /\ op = "detect"
    /\ pc = "ping"
    /\ outcome["ARP"] = "timeout"
    /\ outcome["TCP_SCAN"] = "timeout"
    /\ inflight = {"PING"}

\* C4: the first positive probe ends the detect_device call: no probe is
\* started after it and the result names that probe as its method.
C4_FirstPositiveReturns ==
    op = "detect" =>
      \A p \in Probes :
        outcome[p] = "true" =>
          /\ pc = "done"
          /\ started[Len(started)] = p
          /\ result.is_online
          /\ result.method_used = p
          /\ \A q \in Probes \ {p} : outcome[q] # "true"

C4_Witness ==
    /\ Returned
    /\ outcome["TCP_SCAN"] = "true"
    /\ outcome["ARP"] = "false"
    /\ started = <<"ARP", "TCP_SCAN">>
    /\ result.method_used = "TCP_SCAN"

\* C5: when every probe of detect_device ended negative, in error or in
\* timeout, the result is offline with the marker ALL_METHODS and no
\* latency; and a result with that marker is always offline with no latency.
C5_AllNegativeIsOffline ==
    /\ (Returned /\ \A p \in Probes : outcome[p] \in Negative)
         => result = [status |-> "Ok", is_online |-> FALSE,
                      method_used |-> "ALL_METHODS", response_time |-> <<>>]
    /\ result.method_used = "ALL_METHODS"
         => (~result.is_online /\ result.response_time = <<>>)

C5_Witness ==
    /\ Returned
    /\ outcome["ARP"] = "err"
    /\ outcome["TCP_SCAN"] = "timeout"
    /\ outcome["PING"] = "false"
    /\ result.method_used = "ALL_METHODS"

\* C6: an online result of detect_device names ARP, TCP_SCAN or PING and has
\* a latency, which is at most 1 s + 2 s + 3 s.
C6_OnlineHasMethodAndLatency ==
    (Returned /\ result.is_online) =>
      /\ result.method_used \in {"ARP", "TCP_SCAN", "PING"}
      /\ Len(result.response_time) = 1
      /\ result.response_time[1] <= 1000 + 2000 + 3000

C6_Witness ==
    /\ Returned
    /\ result.is_online
    /\ result.method_used = "PING"
    /\ result.response_time = <<1000 + 2000 + 3000>>

\* ping_device: Ok(is_online) of an Ok result, the error otherwise
ping_device(r) ==
    IF r.status = "Ok" THEN [status |-> "Ok", value |-> r.is_online]
    ELSE [status |-> "Err", value |-> FALSE]

\* C7: detect_device and ping_device never return an error, whatever the
\* probes do, and a probe that ends in error counts as negative: the next
\* probe runs, or after ping the result is offline.
C7_NeverErr ==
    Returned =>
      /\ result.status = "Ok"
      /\ ping_device(result) = [status |-> "Ok", value |-> result.is_online]
      /\ \A k \in 1..Len(started) :
           outcome[started[k]] = "err" =>
             /\ result.method_used # started[k]
             /\ IF k < 3 THEN Len(started) > k ELSE ~result.is_online

C7_Witness ==
    /\ Returned
    /\ outcome["ARP"] = "err"
    /\ outcome["TCP_SCAN"] = "err"
    /\ outcome["PING"] = "err"
    /\ result.status = "Ok"

\* C8 as stated: for an address that does not parse, once the ARP probe was
\* not positive, the TCP scan errs, ping still runs and the result is
\* negative.
C8_UnparsedIsNegative ==
    (Returned /\ ~host.parses /\ outcome["ARP"] # "true") =>
      /\ outcome["TCP_SCAN"] = "err"
      /\ outcome["PING"] # "none"
      /\ result.status = "Ok"
      /\ ~result.is_online

\* C8 as amended: for an address that does not parse, once the ARP probe was
\* not positive, the TCP scan errs before any connect, ping still runs, and
\* the call returns Ok: online with method PING when ping is positive for
\* that string, negative otherwise.
C8_UnparsedFallsToPing ==
    (Returned /\ ~host.parses /\ outcome["ARP"] # "true") =>
      /\ outcome["TCP_SCAN"] = "err"
      /\ tried = <<>>
      /\ started = FullPlan
      /\ outcome["PING"] # "none"
      /\ result.status = "Ok"
      /\ result.is_online = (outcome["PING"] = "true")
      /\ result.is_online => result.method_used = "PING"

C8_Witness ==
    /\ Returned
    /\ ~host.parses
    /\ outcome["ARP"] = "false"
    /\ outcome["TCP_SCAN"] = "err"
    /\ outcome["PING"] = "true"
    /\ result.is_online
    /\ result.method_used = "PING"

TimeoutOfProbe(p) ==
    CASE p = "ARP" -> ARP_TIMEOUT [] p = "TCP_SCAN" -> TCP_TIMEOUT [] OTHER -> PING_TIMEOUT

\* C9: in detect_device a probe whose timeout expires is abandoned at that
\* moment and counted negative, the next probe of the plan starts in the
\* same step (after ping the call returns offline), and a call that has
\* started returns, also when arp and ping never exit.
C9_TimeoutAbandons ==
    /\ [][\A p \in Probes :
            (op = "detect" /\ outcome[p] = "none" /\ outcome'[p] = "timeout") =>
              /\ now' = probeStart + TimeoutOfProbe(p)
              /\ p \notin inflight'
              /\ IF p = "PING"
                 THEN pc' = "done" /\ ~result'.is_online
                 ELSE /\ Len(started') = Len(started) + 1
                      /\ inflight' = {started'[Len(started')]}
                      /\ pc' # "done"]_vars
    /\ (op = "detect") ~> (pc = "done")

C9_Witness ==
    /\ Returned
    /\ stuck = {"ARP", "PING"}
    /\ outcome["ARP"] = "timeout"
    /\ outcome["TCP_SCAN"] = "timeout"
    /\ outcome["PING"] = "timeout"

\* C10: no step of quick_device_check, its return included, happens later
\* than 500 ms + 1000 ms after its start, and what it returns is a bool.
C10_QuickWithinBudget ==
    op = "quick" =>
      /\ now <= 500 + 1000
      /\ pc = "done" => result.status = "bool"

C10_Witness ==
    /\ op = "quick"
    /\ pc = "done"
    /\ now = 500 + 1000
    /\ outcome["ARP"] = "timeout"

\* C11: quick_device_check never starts the ping probe; it returns true
\* exactly when its ARP probe or its scan of [80, 443, 22, 3389, 445] was
\* positive, so a host that only answers ping is returned false.
C11_QuickHasNoPing ==
    op = "quick" =>
      /\ IsPrefix(started, <<"ARP", "TCP_SCAN">>)
      /\ outcome["PING"] = "none"
      /\ IsPrefix(tried, <<80, 443, 22, 3389, 445>>)
      /\ pc = "done" =>
           /\ result.is_online =
                (outcome["ARP"] = "true" \/ outcome["TCP_SCAN"] = "true")
           /\ (host.ping /\ host.arp # "resolved" /\ host.open = {})
                => ~result.is_online

C11_Witness ==
    /\ op = "quick"
    /\ pc = "done"
    /\ host.ping
    /\ host.arp = "no_entry"
    /\ host.open = {}
    /\ outcome["TCP_SCAN"] = "false"
    /\ ~result.is_online

\* C16 as stated: for a host with a resolved ARP entry detect_device returns
\* online with method ARP and a latency below 1 s, and starts neither the
\* TCP scan nor ping.
C16_ResolvedIsArp ==
    (Returned /\ host.arp = "resolved") =>
      /\ result.is_online
      /\ result.method_used = "ARP"
      /\ Len(result.response_time) = 1
      /\ result.response_time[1] < 1000
      /\ started = <<"ARP">>

\* C16 as amended: for a host with a resolved ARP entry, when the arp
\* utility is spawned and exits within the 1 s timeout, detect_device
\* returns online with method ARP and a latency of at most 1 s, and starts
\* neither the TCP scan nor ping.
C16_ResolvedIsArpWhenArpRuns ==
    (Returned /\ host.arp = "resolved" /\ outcome["ARP"] \notin {"err", "timeout"}) =>
      /\ result.is_online
      /\ result.method_used = "ARP"
      /\ Len(result.response_time) = 1
      /\ result.response_time[1] <= 1000
      /\ started = <<"ARP">>
      /\ tried = <<>>

C16_Witness ==
    /\ Returned
    /\ host.arp = "resolved"
    /\ result.method_used = "ARP"
    /\ result.response_time = <<1000>>
    /\ started = <<"ARP">>

\* C17: when the TCP scan of detect_device ends without a successful
\* connect for an address that parses, a connect was started to every port
\* of the list.
C17_NegativeScanTriedAll ==
    (op = "detect" /\ host.parses /\ outcome["TCP_SCAN"] \in Negative)
      => tried = <<22, 23, 80, 135, 139, 443, 445, 3389, 5900, 8080>>

\* C18: the scans connect to the ports in list order; a scan is positive
\* exactly at the first port that accepts, and no port after it is tried;
\* ports that refuse or run into the per-port timeout are passed over.
C18_ScanStopsAtFirstOpen ==
    op # "none" =>
      /\ IsPrefix(tried, IF op = "detect"
                         THEN <<22, 23, 80, 135, 139, 443, 445, 3389, 5900, 8080>>
                         ELSE <<80, 443, 22, 3389, 445>>)
      /\ \A k \in 1..(Len(tried) - 1) : tried[k] \notin host.open
      /\ outcome["TCP_SCAN"] = "true" => tried[Len(tried)] \in host.open
      /\ outcome["TCP_SCAN"] = "false" =>
           /\ tried = PortsOf(op)
           /\ Range(tried) \cap host.open = {}

C18_Witness ==
    /\ Returned
    /\ host.open = {443}
    /\ outcome["TCP_SCAN"] = "true"
    /\ tried = <<22, 23, 80, 135, 139, 443>>
    /\ now > 1000 + 500 + 500

\* C19: the subprocess of a probe abandoned at its timeout is eventually
\* gone: terminated and reaped.
C19_OrphansReaped ==
    \A p \in {"ARP", "PING"} : (p \in orphans) ~> (p \notin orphans)

\* both calls of a pair have returned
BothReturned == prev # <<>> /\ pc = "done"

\* C15 as stated: detect_device called twice in succession for a target
\* whose ARP entry, open ports and ping reply stay the same returns the same
\* is_online both times.
C15_SameIsOnline ==
    BothReturned => result.is_online = prev[1].is_online

\* C15, amended: the two calls return the same is_online when the same
\* probes end in an error or in their timeout in both of them, in particular
\* when none does.
C15_SameIsOnlineWhenSameFailures ==
    (BothReturned /\ Failed(outcome) = prev[1].failed)
        => result.is_online = prev[1].is_online

C15_Witness ==
    /\ BothReturned
    /\ Failed(outcome) = {"TCP_SCAN"}
    /\ prev[1].failed = {"TCP_SCAN"}
    /\ result.is_online
    /\ prev[1].is_online

\* the tasks that ended with outcome o
EndedWith(o) == {c.ip : c \in {d \in Range(completed) : d.out = o}}

\* C12: the result of scan_network has an entry for an address only if the
\* detection of that address returned is_online = true; a host whose
\* detection is negative or whose task fails is absent, and when the sweep
\* returns every host detected online is present, once.
C12_OnlyOnlineCollected ==
    /\ \A k \in 1..Len(active_devices) : active_devices[k] \in EndedWith("online")
    /\ Cardinality(Range(active_devices)) = Len(active_devices)
    /\ scanPc = "done" => EndedWith("online") \subseteq Range(active_devices)

C12_Witness ==
    /\ scanPc = "done"
    /\ Len(active_devices) = 1
    /\ EndedWith("panic") # {}

\* every task spawned so far has finished
AllTasksFinished ==
    /\ joinI > Len(tasks)
    /\ \A k \in 1..Len(tasks) : Tracked(tasks[k]) => HasCompleted(tasks[k])

\* C13: scan_network hands nothing to its caller before every spawned host
\* detection has finished; the caller receives one batch, the whole result.
C13_OneBatchAtTheEnd ==
    /\ Len(returned) <= 1
    /\ scanPc # "done" => returned = <<>>
    /\ returned # <<>> =>
         /\ AllTasksFinished
         /\ Len(base_ip) = BASE_IP_PARTS => Len(tasks) = LAST_HOST - FIRST_HOST + 1
         /\ returned[1] = active_devices

C13_Witness ==
    /\ returned # <<>>
    /\ Len(returned[1]) = 2
    /\ Len(tasks) = 254

\* the addresses detected online, in the order in which their tasks finished
RECURSIVE OnlineInCompletionOrder(_)
OnlineInCompletionOrder(cs) ==
    IF cs = <<>> THEN <<>>
    ELSE IF cs[1].out = "online"
         THEN <<cs[1].ip>> \o OnlineInCompletionOrder(Tail(cs))
         ELSE OnlineInCompletionOrder(Tail(cs))

\* C14 as stated: the entries of the result are in the order in which the
\* concurrent host detections completed.
C14_CompletionOrder ==
    scanPc = "done" => active_devices = OnlineInCompletionOrder(completed)

\* C14, amended: the entries of the result are in the order of the
\* addresses, ascending in the last octet, whatever the order in which the
\* detections completed.
C14_AddressOrder ==
    \A j, k \in 1..Len(active_devices) :
        j < k => active_devices[j][BASE_IP_PARTS] < active_devices[k][BASE_IP_PARTS]

C14_Witness ==
    /\ scanPc = "done"
    /\ Len(active_devices) = 2
    /\ OnlineInCompletionOrder(completed) = <<active_devices[2], active_devices[1]>>

\* what detect_device returns for an address whose probes give e, run alone
Solo(e) ==
    IF e["ARP"] = "true" THEN PairResult(TRUE, "ARP")
    ELSE IF e["TCP_SCAN"] = "true" THEN PairResult(TRUE, "TCP_SCAN")
    ELSE IF e["PING"] = "true" THEN PairResult(TRUE, "PING")
    ELSE PairResult(FALSE, "ALL_METHODS")

\* Solo is what the single call of Spec returns
SoloIsTheSingleCall ==
    Returned => PairResult(result.is_online, result.method_used) = Solo(outcome)

\* C20: detect_device calls for different addresses that run interleaved
\* share no mutable state: each call sees only the probe outcomes of its own
\* address, and returns what it returns when run alone.
C20_CallsIndependent ==
    \A c \in Calls :
        /\ \A p \in Probes : pairOutcome[c][p] \in {"none", pairEnv[c][p]}
        /\ pairPc[c] = "done" => pairResult[c] = Solo(pairEnv[c])
        /\ pairPc[c] # "done" => pairResult[c] = NoPairResult

C20_Witness ==
    /\ overlap
    /\ pairPc["a"] = "done"
    /\ pairPc["b"] = "done"
    /\ pairEnv["a"] # pairEnv["b"]
    /\ pairResult["a"] = PairResult(TRUE, "TCP_SCAN")
    /\ pairResult["b"] = PairResult(FALSE, "ALL_METHODS")

C25_ScanTerminates == (scanPc = "spawn") ~> (scanPc = "done")

Unique(names) == \A j, k \in 1..Len(names) : names[j] = names[k] => j = k

NameList(wol) == [k \in 1..Len(wol) |-> wol[k].name]

\* C26: after sync_wol_devices(config_devices), for unique device names, the
\* names in wol_devices are those of config_devices; an entry that was
\* present keeps its is_online and last_checked, a new entry is offline with
\* last_checked 60 s in the past, and the same sync applied again changes
\* nothing.
C26_SyncMatchesConfig ==
    (/\ lastCall.op = "sync"
     /\ Unique(lastCall.config)
     /\ Unique(NameList(lastCall.pre)))
    => /\ NamesOf(wol_devices) = Range(lastCall.config)
       /\ Len(wol_devices) = Len(lastCall.config)
       /\ \A k \in 1..Len(wol_devices) :
            IF wol_devices[k].name \in NamesOf(lastCall.pre)
            THEN wol_devices[k] \in Range(lastCall.pre)
            ELSE wol_devices[k] =
                   WolDeviceStatus(wol_devices[k].name, FALSE, lastCall.at - 60000)
       /\ \A t \in {clock, clock + TickMs} :
            sync_wol_devices(wol_devices, lastCall.config, t) = wol_devices

C26_Witness ==
    /\ lastCall.op = "sync"
    /\ lastCall.config = <<"nas", "pc">>
    /\ NameList(lastCall.pre) = <<"pc">>
    /\ lastCall.pre[1].is_online
    /\ wol_devices = <<lastCall.pre[1], WolDeviceStatus("nas", FALSE, clock - 60000)>>

\* C27: when connect_vpn has returned, vpn_status is Connected(config.name)
\* if the underlying connect succeeded and Error(message) if it failed;
\* vpn_status is Connecting exactly while the call is in progress.
C27_ConnectSetsStatus ==
    /\ (lastCall.op = "connect_vpn" /\ lastCall.state = "returned") =>
         IF lastCall.ok
         THEN vpn_status = VpnStatus("Connected", lastCall.config)
         ELSE vpn_status.kind = "Error"
    /\ vpn_status.kind = "Connecting" <=> Running

C27_Witness ==
    /\ lastCall.op = "connect_vpn"
    /\ lastCall.state = "returned"
    /\ ~lastCall.ok
    /\ vpn_status.kind = "Error"

Reported(checks, n) ==
    \E k \in 1..Len(checks) : checks[k] = Check(n, "true")

\* C28: after refresh_vpn_status, vpn_status is Connected(n) only if a check
\* for the configuration named n reported connected during that refresh;
\* a refresh in which no check reported connected leaves Disconnected,
\* except that a status of Connecting is left as it is.
C28_RefreshReflectsChecks ==
    /\ lastCall.op = "refresh" =>
         /\ vpn_status.kind = "Connected" => Reported(lastCall.checks, vpn_status.name)
         /\ (\A k \in 1..Len(lastCall.checks) : lastCall.checks[k].result # "true")
              => vpn_status = Disconnected
    /\ \A cfgs \in VpnConfigs : \A res \in [1..Len(cfgs) -> {"false", "err"}] :
         refresh_vpn_status(VpnStatus("Connecting", ""), cfgs, "false", res).status
           = VpnStatus("Connecting", "")

C28_Witness ==
    /\ lastCall.op = "refresh"
    /\ lastCall.pre = VpnStatus("Connected", "home")
    /\ lastCall.checks = <<Check("home", "err"), Check("home", "false"), Check("work", "err")>>
    /\ vpn_status = Disconnected

\* C30: wake_device polls the device status only when the wake packet was
\* sent, at most 5 times with waits of 2, 3, 4, 5 and 6 seconds, stops at
\* the first check that finds the device online, and returns the result of
\* the send whether or not the device came online.
C30_WakePolling ==
    lastCall.op = "wake" =>
      /\ ~lastCall.ok => lastCall.polls = <<>> /\ lastCall.waits = <<>>
      /\ Len(lastCall.polls) <= 5
      /\ IsPrefix(lastCall.waits, <<2000, 3000, 4000, 5000, 6000>>)
      /\ Len(lastCall.waits) - Len(lastCall.polls) \in {0, 1}
      /\ \A k \in 1..(Len(lastCall.polls) - 1) : ~lastCall.polls[k]
      /\ lastCall.state = "returned" =>
           /\ lastCall.returns = (IF lastCall.ok THEN "Ok" ELSE "Err")
           /\ lastCall.ok =>
                \/ Len(lastCall.polls) = 5
                \/ lastCall.polls[Len(lastCall.polls)]
      /\ (lastCall.state # "returned" /\ lastCall.polls # <<>>) =>
           ~lastCall.polls[Len(lastCall.polls)]

C30_Witness ==
    /\ Waking("returned")
    /\ lastCall.waits = <<2000, 3000, 4000>>
    /\ lastCall.polls = <<FALSE, FALSE, TRUE>>
    /\ lastCall.returns = "Ok"

\* C29 as stated: quick_update_device_statuses changes exactly the devices
\* whose last_checked is more than 10 seconds old when it is called: each
\* gets the result of quick_device_check and a new last_checked, every other
\* device stays as it was.
C29_ChangesTheStaleOnes ==
    lastCall.op = "quick" =>
      \A k \in 1..Len(wol_devices) :
        IF lastCall.at - lastCall.pre[k].last_checked > 10000
        THEN /\ wol_devices[k].is_online = lastCall.res[k]
             /\ wol_devices[k].last_checked >= lastCall.at
        ELSE wol_devices[k] = lastCall.pre[k]

\* C29, amended: the devices changed are exactly those whose last_checked
\* is more than 10 seconds old at the moment the loop reaches them, the time
\* spent checking the devices before them included; each gets the result of
\* quick_device_check and last_checked set to the time its check ended,
\* every other device stays as it was.  A device that is more than 10
\* seconds old at the call is always among them.
C29_ChangesTheStaleWhenReached ==
    lastCall.op = "quick" =>
      /\ Len(wol_devices) = Len(lastCall.pre)
      /\ \A k \in 1..Len(wol_devices) :
           /\ IF lastCall.reached[k] - lastCall.pre[k].last_checked > 10000
              THEN wol_devices[k] =
                     WolDeviceStatus(lastCall.pre[k].name, lastCall.res[k],
                                     lastCall.reached[k] + lastCall.durs[k])
              ELSE wol_devices[k] = lastCall.pre[k]
           /\ lastCall.at - lastCall.pre[k].last_checked > 10000
                => wol_devices[k].last_checked > lastCall.at
           /\ lastCall.reached[k] >= lastCall.at
           /\ lastCall.reached[k] <= clock

C29_Witness ==
    /\ lastCall.op = "quick"
    /\ Len(wol_devices) = 2
    /\ lastCall.at - lastCall.pre[1].last_checked > 10000
    /\ lastCall.at - lastCall.pre[2].last_checked <= 10000
    /\ lastCall.reached[2] - lastCall.pre[2].last_checked > 10000
    /\ wol_devices[2].last_checked = clock

\* C23: every device operation put in the Loading state leaves it for
\* Success or Error once its thread has sent its result, also when a second
\* operation is started before the first one's result was polled.
C23_LoadingEnds ==
    \A k \in DeviceNames \X OpKinds :
        (device_operations[k] = "Loading") ~> (device_operations[k] # "Loading")

\* the entry of device d in the list wol
EntryOf(wol, d) == wol[CHOOSE k \in 1..Len(wol) : wol[k].name = d]

\* C24: after a Ping operation has completed, the App's own network_manager
\* holds the detected is_online and the refreshed last_checked of the
\* device, as after check_device_status called on it directly.
C24_AppManagerHoldsPingResult ==
    \A i \in 1..Len(ops) :
        (ops[i].kind = "ping" /\ ops[i].state = "sent")
        => /\ EntryOf(wol_devices, ops[i].device).is_online = ops[i].is_online
           /\ EntryOf(wol_devices, ops[i].device).last_checked = ops[i].checked

====
